---- MODULE Spec2Model ----
(***************************************************************************)
(* A model of two components of the avrae bot:                             *)
(*   - cogs5e/gamelog/utils.py : the feature_flag decorator that gates a    *)
(*     game-log event handler;                                              *)
(*   - ui/servsettings.py      : the server settings menu (Root, Lookup,    *)
(*     InlineRolling, Randchar, Miscellaneous screens).                     *)
(* Message contents are sequences of one-character strings, so that the    *)
(* conversions the handlers apply (int(), str.split, str.lower, ...) are   *)
(* computed and not assumed.                                               *)
(***************************************************************************)
EXTENDS Integers, Sequences, FiniteSets, TLC

VARIABLES
    settings,    \* the session's in-memory ServerSettings document
    store,       \* the guild's document in the database
    guild,       \* the guild's roles (fixed during a session)
    nlpFlag,     \* value of the remote flag cog.initiative.upenn_nlp.enabled
    screen,      \* class of the view that currently handles interactions
    items,       \* controls that are children of the current view
    disabled,    \* controls of the current view whose .disabled is True
    removeOpts,  \* number of entries of the current view's Remove Rule select
    pending,     \* outstanding bot.wait_for("message") listeners, oldest first
    woken,       \* listeners a message has resolved, whose handlers resume next
    last,        \* what the most recent step did (its handler, outcome, effects)
    steps,       \* number of component interactions so far
    display,     \* what the menu message shows, as the current view last rendered it
    peer,        \* a second session opened on the same guild
    gate         \* state of one call of a handler wrapped by feature_flag

menuVars == <<settings, store, guild, nlpFlag, screen, items, disabled,
              removeOpts, pending, woken, last, steps, display, peer>>
vars == <<settings, store, guild, nlpFlag, screen, items, disabled,
          removeOpts, pending, woken, last, steps, display, peer, gate>>

----------------------------------------------------------------------------
(* Bounds of the model. *)

\* component interactions (button presses, select choices) per session
MaxSteps == 3

----------------------------------------------------------------------------
(* Python values. None and a raised ValueError are the empty sequence, a    *)
(* value v is <<v>>.                                                        *)

None == <<>>

Some(v) == <<v>>

UpperChars == <<"A","B","C","D","E","F","G","H","I","J","K","L","M",
                "N","O","P","Q","R","S","T","U","V","W","X","Y","Z">>

LowerChars == <<"a","b","c","d","e","f","g","h","i","j","k","l","m",
                "n","o","p","q","r","s","t","u","v","w","x","y","z">>

DigitChars == <<"0","1","2","3","4","5","6","7","8","9">>

IndexIn(c, chars) == CHOOSE i \in 1..Len(chars) : chars[i] = c

IsIn(c, chars) == \E i \in 1..Len(chars) : chars[i] = c

LowerChar(c) == IF IsIn(c, UpperChars) THEN LowerChars[IndexIn(c, UpperChars)] ELSE c

UpperChar(c) == IF IsIn(c, LowerChars) THEN UpperChars[IndexIn(c, LowerChars)] ELSE c

\* str.lower()
Lower(s) == [i \in 1..Len(s) |-> LowerChar(s[i])]

\* str.upper()
Upper(s) == [i \in 1..Len(s) |-> UpperChar(s[i])]

RECURSIVE LStrip(_)
LStrip(s) == IF s # <<>> /\ Head(s) = " " THEN LStrip(Tail(s)) ELSE s

RECURSIVE RStrip(_)
RStrip(s) == IF s # <<>> /\ s[Len(s)] = " " THEN RStrip(SubSeq(s, 1, Len(s) - 1)) ELSE s

\* str.strip()
Strip(s) == RStrip(LStrip(s))

\* str.split(sep) for a one-character separator: always at least one part
RECURSIVE SplitFrom(_, _, _)
SplitFrom(s, sep, cur) ==
    IF s = <<>> THEN <<cur>>
    ELSE IF Head(s) = sep THEN <<cur>> \o SplitFrom(Tail(s), sep, <<>>)
    ELSE SplitFrom(Tail(s), sep, Append(cur, Head(s)))

Split(s, sep) == SplitFrom(s, sep, <<>>)

\* sep in s
Contains(s, c) == \E i \in 1..Len(s) : s[i] = c

\* str.replace(", ", ",")
RECURSIVE ReplaceCommaSpace(_)
ReplaceCommaSpace(s) ==
    IF s = <<>> THEN <<>>
    ELSE IF Len(s) >= 2 /\ s[1] = "," /\ s[2] = " "
         THEN <<",">> \o ReplaceCommaSpace(SubSeq(s, 3, Len(s)))
    ELSE <<Head(s)>> \o ReplaceCommaSpace(Tail(s))

\* the digits of a literal after its sign: digits, single underscores between
IsDigits(s) ==
    /\ s # <<>>
    /\ \A i \in 1..Len(s) : IsIn(s[i], DigitChars) \/ s[i] = "_"
    /\ s[1] # "_" /\ s[Len(s)] # "_"
    /\ \A i \in 1..(Len(s) - 1) : ~(s[i] = "_" /\ s[i + 1] = "_")

RECURSIVE DigitsValue(_, _)
DigitsValue(s, acc) ==
    IF s = <<>> THEN acc
    ELSE IF Head(s) = "_" THEN DigitsValue(Tail(s), acc)
    ELSE DigitsValue(Tail(s), 10 * acc + (IndexIn(Head(s), DigitChars) - 1))

\* int(str): surrounding whitespace, an optional sign, decimal digits;
\* None stands for the ValueError
PyInt(s) ==
    LET t == Strip(s)
        signed == t # <<>> /\ Head(t) \in {"+", "-"}
        d == IF signed THEN Tail(t) ELSE t
    IN  IF ~IsDigits(d) THEN None
        ELSE IF signed /\ Head(t) = "-" THEN Some(0 - DigitsValue(d, 0))
        ELSE Some(DigitsValue(d, 0))

\* str(int) for a natural number
RECURSIVE NatStr(_)
NatStr(n) == IF n < 10 THEN <<DigitChars[n + 1]>>
             ELSE NatStr(n \div 10) \o <<DigitChars[(n % 10) + 1]>>

\* str(int)
IntStr(n) == IF n < 0 THEN <<"-">> \o NatStr(0 - n) ELSE NatStr(n)

\* ", ".join(parts) for a non-empty list
RECURSIVE JoinComma(_)
JoinComma(parts) ==
    IF Len(parts) = 1 THEN parts[1]
    ELSE parts[1] \o <<",", " ">> \o JoinComma(Tail(parts))

----------------------------------------------------------------------------
(* Collaborators of the menu. *)

IsPlainDigits(s) == s # <<>> /\ \A i \in 1..Len(s) : IsIn(s[i], DigitChars)

RECURSIVE LeadingDigits(_)
LeadingDigits(s) ==
    IF s # <<>> /\ IsIn(Head(s), DigitChars) THEN <<Head(s)>> \o LeadingDigits(Tail(s))
    ELSE <<>>

\* str(d20.parse(text)) on the fragment  INT | [INT] "d" INT [("kh" | "kl") INT]
\* of the dice grammar: the expression in normal form, None for RollSyntaxError
DiceParse(s) ==
    LET t == Strip(s)
        parts == Split(t, "d")
        num == parts[1]
        size == LeadingDigits(parts[2])
        op == SubSeq(parts[2], Len(size) + 1, Len(parts[2]))
        keep == SubSeq(op, 3, Len(op))
    IN  IF Len(parts) = 1
        THEN IF IsPlainDigits(t) THEN Some(NatStr(DigitsValue(t, 0))) ELSE None
        ELSE IF /\ Len(parts) = 2
                /\ num = <<>> \/ IsPlainDigits(num)
                /\ size # <<>>
                /\ \/ op = <<>>
                   \/ /\ Len(op) >= 3
                      /\ op[1] = "k" /\ op[2] \in {"h", "l"}
                      /\ IsPlainDigits(keep)
        THEN Some(NatStr(IF num = <<>> THEN 1 ELSE DigitsValue(num, 0)) \o <<"d">>
                  \o NatStr(DigitsValue(size, 0))
                  \o (IF op = <<>> THEN <<>>
                      ELSE <<"k", op[2]>> \o NatStr(DigitsValue(keep, 0))))
        ELSE None

\* utils.constants.STAT_ABBREVIATIONS
STAT_ABBREVIATIONS == << <<"s","t","r">>, <<"d","e","x">>, <<"c","o","n">>,
                         <<"i","n","t">>, <<"w","i","s">>, <<"c","h","a">> >>

\* RandcharRule(type=, amount=, value=): amount and value are validated as
\* integers; None stands for the validation error (a ValueError)
RandcharRule(type, amount, value) ==
    IF PyInt(amount) = None \/ PyInt(value) = None THEN None
    ELSE Some([type |-> type, amount |-> PyInt(amount)[1], value |-> PyInt(value)[1]])

\* the largest number of entries of a select, and of rules a guild may hold
TooManyRoles == 25

RuleLimit == 25

SetsBound == 25

StatsBound == 10

\* timeout of bot.wait_for, in seconds
WaitTimeout == 60

Role(id, name) == [id |-> id, name |-> name]

SmallGuild == << Role(1, <<"D","M">>), Role(2, <<"g","m">>) >>

BigGuild == [i \in 1..(TooManyRoles + 1) |->
                CASE i = 1 -> Role(1, <<"D","M">>)
                  [] i = 3 -> Role(3, <<"9","9">>)
                  [] OTHER -> Role(i, <<"r">> \o NatStr(i))]

\* a guild of n roles
GuildOfSize(n) == [i \in 1..n |-> Role(i, <<"r">> \o NatStr(i))]

RoleIds(g) == {g[i].id : i \in 1..Len(g)}

\* guild.get_role(role_id)
GetRole(g, id) == IF id \in RoleIds(g) THEN Some(id) ELSE None

\* next((r for r in guild.roles if r.name.lower() == name.lower()), None)
RoleByName(g, name) ==
    LET hits == {i \in 1..Len(g) : Lower(g[i].name) = Lower(name)}
    IN  IF hits = {} THEN None
        ELSE Some(g[CHOOSE i \in hits : \A j \in hits : i <= j].id)

----------------------------------------------------------------------------
(* The settings document. dm_roles is None or a non-empty list of ids: it   *)
(* is modelled as the set of its ids, {} for None.                          *)

GtRule == [type |-> "gt", amount |-> 1, value |-> 15]

LtRule == [type |-> "lt", amount |-> 2, value |-> 10]

DefaultNames == [i \in 1..Len(STAT_ABBREVIATIONS) |-> Upper(STAT_ABBREVIATIONS[i])]

DefaultSettings ==
    [dm_roles |-> {},
     lookup_dm_required |-> TRUE,
     lookup_pm_dm |-> FALSE,
     lookup_pm_result |-> FALSE,
     inline_enabled |-> "DISABLED",
     show_campaign_cta |-> TRUE,
     upenn_nlp_opt_in |-> FALSE,
     randchar_dice |-> <<"4","d","6","k","h","3">>,
     randchar_sets |-> 1,
     randchar_num |-> 6,
     randchar_straight |-> FALSE,
     randchar_stat_names |-> <<>>,
     randchar_min |-> None,
     randchar_max |-> None,
     randchar_rules |-> <<GtRule>>]

\* documents a session may load
StoredDocs ==
    { DefaultSettings,
      [DefaultSettings EXCEPT !.randchar_num = 4,
                              !.randchar_stat_names = DefaultNames,
                              !.randchar_rules = <<GtRule, LtRule>>],
      [DefaultSettings EXCEPT !.randchar_stat_names = DefaultNames,
                              !.randchar_straight = TRUE,
                              !.randchar_rules = [i \in 1..(RuleLimit - 1) |-> GtRule]] }

Msg(content, mentions) == [timeout |-> FALSE, content |-> content, role_mentions |-> mentions]

\* the asyncio.TimeoutError of wait_for, in the place of a message
TimeoutEv == [timeout |-> TRUE, content |-> <<>>, role_mentions |-> {}]

\* follow-up messages the owner may send in the channel
Msgs ==
    { Msg(<<"4">>, {}),
      Msg(<<"2","5">>, {}),
      Msg(<<"0">>, {}),
      Msg(<<"-","3">>, {}),
      Msg(<<"D","e","f","a","u","l","t">>, {}),
      Msg(<<"2","<","1","0">>, {}),
      Msg(<<"a",","," ","b",",","c",",","d">>, {}),
      Msg(<<"r","e","s","e","t">>, {}),
      Msg(<<"d","m",","," ","x">>, {}) }

get_over_under_desc_swapped(rules) ==
    IF rules = <<>> THEN <<"N","o","n","e">>
    ELSE <<"A","t"," ","l","e","a","s","t"," ">> \o
         JoinComma([i \in 1..Len(rules) |->
             IntStr(rules[i].amount)
             \o (IF rules[i].type = "lt" THEN <<" ","o","v","e","r"," ">>
                 ELSE <<" ","u","n","d","e","r"," ">>)
             \o IntStr(rules[i].value)])

\* get_over_under_desc(rules)
get_over_under_desc(rules) ==
    IF rules = <<>> THEN <<"N","o","n","e">>
    ELSE <<"A","t"," ","l","e","a","s","t"," ">> \o
         JoinComma([i \in 1..Len(rules) |->
             IntStr(rules[i].amount)
             \o (IF rules[i].type = "gt" THEN <<" ","o","v","e","r"," ">>
                 ELSE <<" ","u","n","d","e","r"," ">>)
             \o IntStr(rules[i].value)])

----------------------------------------------------------------------------
(* Effects of a handler. A handler runs on an execution state x: the        *)
(* document, the store, the control state of the handler's own view, and   *)
(* the log of what it sent, rendered, deleted and committed.               *)

Cur == [settings |-> settings, store |-> store, items |-> items,
        disabled |-> disabled, removeOpts |-> removeOpts, log |-> <<>>]

Logged(x, what) == [x EXCEPT !.log = Append(@, what)]

CommitSettingsTwoFields(x) ==
    Logged([x EXCEPT !.store = [x.store EXCEPT
                !.lookup_dm_required = x.settings.lookup_dm_required,
                !.lookup_pm_dm = x.settings.lookup_pm_dm]], "commit")

\* ServerSettingsMenuBase.commit_settings: the whole document is written
CommitSettings(x) == Logged([x EXCEPT !.store = x.settings], "commit")

\* MenuBase.refresh_content: the message is edited to show the view
RefreshContent(x) == Logged(x, "render")

\* interaction.send(..., ephemeral=True)
Send(x, notice) == Logged(x, notice)

\* with suppress(disnake.HTTPException): await input_msg.delete()
DeleteMsg(x) == Logged(x, "delete")

Disable(x, ctl) == [x EXCEPT !.disabled = @ \cup {ctl}]

Enable(x, ctl) == [x EXCEPT !.disabled = @ \ {ctl}]

Count(log, what) == Cardinality({i \in 1..Len(log) : log[i] = what})

\* _RandcharSettingsUI._refresh_remove_rule_select
RefreshRemoveRuleSelect(x) ==
    IF x.settings.randchar_rules = <<>>
    THEN [Disable(x, "remove_rule") EXCEPT !.removeOpts = 0]
    ELSE LET y == Enable(x, "remove_rule")
             z == IF Len(x.settings.randchar_rules) < RuleLimit
                  THEN Enable(y, "add_rule") ELSE Disable(y, "add_rule")
         IN  [z EXCEPT !.removeOpts = Len(x.settings.randchar_rules)]

\* the part of a handler that follows its wait_for: ev is the message
\* received or the timeout. Each returns the execution state and the outcome.
Result(x, outcome) == [x |-> x, outcome |-> outcome]

FailureOf(ev) == IF ev.timeout THEN "timeout" ELSE "invalid"

\* select_dice, from the wait on
SelectDiceResume(x, ev) ==
    LET parsed == IF ev.timeout THEN None ELSE DiceParse(ev.content)
        body == IF parsed = None
                THEN Send(x, "notice_fail")
                ELSE Send(CommitSettings(DeleteMsg(
                        [x EXCEPT !.settings.randchar_dice = parsed[1]])), "notice_ok")
    IN  Result(RefreshContent(Enable(body, "select_dice")),
               IF parsed = None THEN FailureOf(ev) ELSE "ok")

\* the shape shared by select_sets, select_stats, select_minimum and
\* select_maximum: try / except (ValueError, TimeoutError) / else / finally
TryElseFinally(x, ev, ctl, valid, changed) ==
    LET body == IF valid
                THEN Send(CommitSettings(DeleteMsg(changed)), "notice_ok")
                ELSE Send(x, "notice_fail")
    IN  Result(RefreshContent(Enable(body, ctl)), IF valid THEN "ok" ELSE FailureOf(ev))

InBoundExclusive(parsed, lo, hi) == parsed # None /\ lo <= parsed[1] /\ parsed[1] < hi

\* not lo <= int(input_msg.content) <= hi raises the ValueError
InBound(parsed, lo, hi) == parsed # None /\ lo <= parsed[1] /\ parsed[1] <= hi

\* select_sets, from the wait on
SelectSetsResume(x, ev) ==
    LET parsed == IF ev.timeout THEN None ELSE PyInt(ev.content)
        valid == InBound(parsed, 1, SetsBound)
    IN  TryElseFinally(x, ev, "select_sets", valid,
                       [x EXCEPT !.settings.randchar_sets = parsed[1]])

SelectStatsResumeKeepStraight(x, ev) ==
    LET parsed == IF ev.timeout THEN None ELSE PyInt(ev.content)
        valid == InBound(parsed, 1, StatsBound)
    IN  TryElseFinally(x, ev, "select_stats", valid,
            [x EXCEPT !.settings.randchar_num = parsed[1]])

\* select_stats, from the wait on
SelectStatsResume(x, ev) ==
    LET parsed == IF ev.timeout THEN None ELSE PyInt(ev.content)
        valid == InBound(parsed, 1, StatsBound)
        n == parsed[1]
    IN  TryElseFinally(x, ev, "select_stats", valid,
            [x EXCEPT !.settings.randchar_num = n,
                      !.settings.randchar_straight =
                          IF n # Len(x.settings.randchar_stat_names) THEN FALSE ELSE @])

IsDefaultExact(content) == content = <<"d","e","f","a","u","l","t">>

\* input_msg.content.lower() == "default"
IsDefault(content) == Lower(content) = <<"d","e","f","a","u","l","t">>

\* select_minimum, from the wait on
SelectMinimumResume(x, ev) ==
    LET parsed == IF ev.timeout THEN None ELSE PyInt(ev.content)
        valid == ~ev.timeout /\ (IsDefault(ev.content) \/ parsed # None)
    IN  TryElseFinally(x, ev, "select_minimum", valid,
            [x EXCEPT !.settings.randchar_min =
                          IF IsDefault(ev.content) THEN None ELSE Some(parsed[1])])

\* select_maximum, from the wait on
SelectMaximumResume(x, ev) ==
    LET parsed == IF ev.timeout THEN None ELSE PyInt(ev.content)
        valid == ~ev.timeout /\ (IsDefault(ev.content) \/ parsed # None)
    IN  TryElseFinally(x, ev, "select_maximum", valid,
            [x EXCEPT !.settings.randchar_max =
                          IF IsDefault(ev.content) THEN None ELSE Some(parsed[1])])

StraightKept(x) == x

\* the except block of toggle_straight: self.settings.randchar_straight = False
StraightOff(x) == [x EXCEPT !.settings.randchar_straight = FALSE]

\* toggle_straight, from the wait on
ToggleStraightResume(x, ev) ==
    LET stats == IF IsDefault(ev.content) THEN DefaultNames
                 ELSE Split(ReplaceCommaSpace(ev.content), ",")
        valid == ~ev.timeout /\ Len(stats) = x.settings.randchar_num
        body == IF valid
                THEN Send(CommitSettings(DeleteMsg(
                        [x EXCEPT !.settings.randchar_stat_names = stats])), "notice_ok")
                ELSE Send(StraightOff(x), "notice_fail")
    IN  Result(RefreshContent(CommitSettings(Enable(body, "toggle_straight"))),
               IF valid THEN "ok" ELSE FailureOf(ev))

ParseRuleFirstTwoParts(content) ==
    LET sep == IF Contains(content, ">") THEN ">" ELSE "<"
        parts == Split(content, sep)
    IN  IF ~Contains(content, ">") /\ ~Contains(content, "<") THEN None
        ELSE RandcharRule(IF sep = ">" THEN "gt" ELSE "lt", parts[1], parts[2])

\* the rule an input of add_rule denotes, None for the ValueError
ParseRule(content) ==
    LET sep == IF Contains(content, ">") THEN ">" ELSE "<"
        parts == Split(content, sep)
    IN  IF ~Contains(content, ">") /\ ~Contains(content, "<") THEN None
        ELSE IF Len(parts) # 2 THEN None
        ELSE RandcharRule(IF sep = ">" THEN "gt" ELSE "lt", parts[1], parts[2])

AddRuleFinallyRenderOnly(x) == RefreshContent(x)

\* the finally block of add_rule
AddRuleFinally(x) ==
    RefreshContent(IF Len(x.settings.randchar_rules) < RuleLimit
                   THEN Enable(x, "add_rule") ELSE x)

\* add_rule, from the wait on
AddRuleResume(x, ev) ==
    LET rule == IF ev.timeout THEN None ELSE ParseRule(ev.content)
        body == IF rule = None
                THEN Send(x, "notice_fail")
                ELSE Send(CommitSettings(DeleteMsg(RefreshRemoveRuleSelect(
                        [x EXCEPT !.settings.randchar_rules = Append(@, rule[1])]))),
                        "notice_ok")
    IN  Result(AddRuleFinally(body), IF rule = None THEN FailureOf(ev) ELSE "ok")

\* the role a comma-separated statement of the DM-roles text names
RoleOfStmt(g, stmt) ==
    LET clean == Strip(stmt)
    IN  IF PyInt(clean) # None THEN GetRole(g, PyInt(clean)[1]) ELSE RoleByName(g, clean)

\* role_ids of _text_select_dm_roles: the mentions and the statements' roles
TextRoleIds(g, ev) ==
    LET stmts == Split(ev.content, ",")
    IN  ev.role_mentions \cup
        {RoleOfStmt(g, stmts[i])[1] : i \in {j \in 1..Len(stmts) : RoleOfStmt(g, stmts[j]) # None}}

\* _text_select_dm_roles from the wait on, then the rest of select_dm_roles
TextSelectDmRolesResume(x, g, ev) ==
    LET reset == ~ev.timeout /\ ev.content = <<"r","e","s","e","t">>
        found == IF ev.timeout \/ reset THEN {} ELSE TextRoleIds(g, ev)
        good == reset \/ found # {}
        asked == IF ev.timeout THEN x ELSE DeleteMsg(x)
        told == Send(asked, IF good THEN "notice_ok" ELSE "notice_fail")
        role_ids == IF reset THEN {} ELSE IF found # {} THEN found ELSE x.settings.dm_roles
        set == [Enable(told, "select_dm_roles") EXCEPT !.settings.dm_roles = role_ids]
    IN  Result(RefreshContent(CommitSettings(set)),
               IF good THEN "ok" ELSE FailureOf(ev))

\* the handler a resolved wait resumes
ResumeOf(act, x, g, ev) ==
    CASE act = "select_dice" -> SelectDiceResume(x, ev)
      [] act = "select_sets" -> SelectSetsResume(x, ev)
      [] act = "select_stats" -> SelectStatsResume(x, ev)
      [] act = "toggle_straight" -> ToggleStraightResume(x, ev)
      [] act = "select_minimum" -> SelectMinimumResume(x, ev)
      [] act = "select_maximum" -> SelectMaximumResume(x, ev)
      [] act = "add_rule" -> AddRuleResume(x, ev)
      [] act = "select_dm_roles" -> TextSelectDmRolesResume(x, g, ev)

----------------------------------------------------------------------------
(* Views. defer_to(cls) builds a new view of class cls, whose controls are  *)
(* all enabled, stops the current one, runs the new view's _before_send    *)
(* and renders it. Handlers of a stopped view that still wait for a        *)
(* message keep running on the shared settings object; their view is       *)
(* detached: what they do to their controls does not reach the new view.   *)

Screens == {"Root", "Lookup", "InlineRolling", "Randchar", "Miscellaneous"}

ItemsOf(cls) ==
    CASE cls = "Root" -> {"lookup_settings", "inline_rolling_settings", "randchar_settings",
                          "miscellaneous_settings", "exit"}
      [] cls = "Lookup" -> {"select_dm_roles", "toggle_dm_required", "toggle_pm_dm",
                            "toggle_pm_result", "back"}
      [] cls = "InlineRolling" -> {"disable", "react", "enable", "back"}
      [] cls = "Miscellaneous" -> {"toggle_campaign_cta", "toggle_upenn_nlp_opt_in", "back"}
      [] cls = "Randchar" -> {"select_dice", "select_sets", "select_stats", "toggle_straight",
                              "select_minimum", "select_maximum", "add_rule", "remove_rule",
                              "back"}

\* _InlineRollingSettingsUI._before_send
InlineBeforeSend(x) ==
    CASE x.settings.inline_enabled = "DISABLED" -> Disable(x, "disable")
      [] x.settings.inline_enabled = "REACTION" -> Disable(x, "react")
      [] x.settings.inline_enabled = "ENABLED" -> Disable(x, "enable")

\* _MiscellaneousSettingsUI._before_send
MiscBeforeSend(x, flag_enabled) ==
    IF ~flag_enabled THEN [x EXCEPT !.items = @ \ {"toggle_upenn_nlp_opt_in"}] ELSE x

\* _RandcharSettingsUI._before_send
RandcharBeforeSend(x) == RefreshRemoveRuleSelect(x)

\* _before_send of the view classes (_LookupSettingsUI's only rebuilds the
\* options of the DM-role select, which DmRoleOptions computes)
BeforeSend(cls, x, flag_enabled) ==
    CASE cls = "InlineRolling" -> InlineBeforeSend(x)
      [] cls = "Miscellaneous" -> MiscBeforeSend(x, flag_enabled)
      [] cls = "Randchar" -> RandcharBeforeSend(x)
      [] OTHER -> x

\* the options of the DM-role select after _refresh_dm_role_select: the
\* TOO_MANY_ROLES_SENTINEL entry alone, or one entry per role
DmRoleOptions(g) ==
    IF Len(g) > TooManyRoles THEN [sentinel |-> TRUE, roles |-> {}]
    ELSE [sentinel |-> FALSE, roles |-> RoleIds(g)]

\* get_content of the view classes, as far as the remote flag decides it: the
\* Root and the Miscellaneous screen describe the NLP opt-in only when the
\* flag, evaluated for that render, is on
GetContent(cls, flag_enabled) ==
    [screen |-> cls, nlp |-> cls \in {"Root", "Miscellaneous"} /\ flag_enabled]

\* the message after a handler that ran on execution state x
Shown(cls, x) == IF Count(x.log, "render") > 0 THEN GetContent(cls, nlpFlag) ELSE display

\* what every step records of itself
Last(act, phase, outcome, content, log, btn) ==
    [act |-> act, phase |-> phase, outcome |-> outcome, content |-> content,
     log |-> log, btn |-> btn]

\* a listener of bot.wait_for: its handler, whether the handler's view has
\* been stopped and, then, the state of its triggering control there, and
\* the document and store as they were when the handler started
Wait(act) == [act |-> act, detached |-> FALSE, btn |-> TRUE,
              mem |-> settings, db |-> store, timeout |-> WaitTimeout]

Detach(w) == IF w.detached THEN w
             ELSE [w EXCEPT !.detached = TRUE, !.btn = (w.act \in disabled)]

Apply(x) ==
    /\ settings' = x.settings
    /\ store' = x.store
    /\ items' = x.items
    /\ disabled' = x.disabled
    /\ removeOpts' = x.removeOpts

Idle == woken = <<>> /\ steps < MaxSteps

CanPress(cls, ctl) == Idle /\ screen = cls /\ ctl \in items /\ ctl \notin disabled

\* MenuBase.defer_to(view_type, interaction)
DeferTo(cls, act) ==
    LET fresh == [Cur EXCEPT !.items = ItemsOf(cls), !.disabled = {}, !.removeOpts = 0]
        x == RefreshContent(BeforeSend(cls, fresh, nlpFlag))
    IN  /\ Apply(x)
        /\ screen' = cls
        /\ pending' = [i \in 1..Len(pending) |-> Detach(pending[i])]
        /\ last' = Last(act, "done", "none", <<>>, x.log, FALSE)
        /\ steps' = steps + 1
        /\ display' = Shown(cls, x)
        /\ UNCHANGED <<guild, nlpFlag, woken, peer, gate>>

\* a handler that runs to its end without waiting; values is what the
\* interaction carried (select.values)
FinishWith(act, x, values) ==
    /\ Apply(x)
    /\ last' = Last(act, "done", "none", values, x.log, act \in x.disabled)
    /\ steps' = steps + 1
    /\ display' = Shown(screen, x)
    /\ UNCHANGED <<guild, nlpFlag, screen, pending, woken, peer, gate>>

Finish(act, x) == FinishWith(act, x, <<>>)

\* a handler that disables its control, prompts and waits for a message
Suspend(act, x) ==
    /\ Apply(x)
    /\ pending' = Append(pending, Wait(act))
    /\ last' = Last(act, "waiting", "none", <<>>, x.log, act \in x.disabled)
    /\ steps' = steps + 1
    /\ display' = Shown(screen, x)
    /\ UNCHANGED <<guild, nlpFlag, screen, woken, peer, gate>>

Prompt(x, ctl) == Send(RefreshContent(Disable(x, ctl)), "prompt")

----------------------------------------------------------------------------
(* ServerSettingsUI *)

lookup_settings == CanPress("Root", "lookup_settings") /\ DeferTo("Lookup", "lookup_settings")

inline_rolling_settings ==
    CanPress("Root", "inline_rolling_settings") /\ DeferTo("InlineRolling", "inline_rolling_settings")

randchar_settings == CanPress("Root", "randchar_settings") /\ DeferTo("Randchar", "randchar_settings")

miscellaneous_settings ==
    CanPress("Root", "miscellaneous_settings") /\ DeferTo("Miscellaneous", "miscellaneous_settings")

\* exit: on_timeout takes the components off the message
exit ==
    /\ CanPress("Root", "exit")
    /\ Finish("exit", [Cur EXCEPT !.items = {}, !.disabled = {}])

(* _LookupSettingsUI *)

\* select.values for the entries chosen: str(role.id) of each
RECURSIVE ValuesOf(_)
ValuesOf(ids) ==
    IF ids = {} THEN <<>>
    ELSE LET first == CHOOSE i \in ids : \A j \in ids : i <= j
         IN  <<NatStr(first)>> \o ValuesOf(ids \ {first})

select_dm_roles_added ==
    /\ CanPress("Lookup", "select_dm_roles")
    /\ \E chosen \in SUBSET DmRoleOptions(guild).roles :
          LET values == ValuesOf(chosen)
              role_ids == {PyInt(values[i])[1] : i \in 1..Len(values)}
          IN  FinishWith("select_dm_roles",
                         RefreshContent(CommitSettings(
                             [Cur EXCEPT !.settings.dm_roles = @ \cup role_ids])),
                         values)

\* select_dm_roles with the entries chosen in the select (none, some or all):
\* role_ids = list(map(int, select.values)), and [] or None is None
select_dm_roles ==
    /\ CanPress("Lookup", "select_dm_roles")
    /\ \E chosen \in SUBSET DmRoleOptions(guild).roles :
          LET values == ValuesOf(chosen)
              role_ids == {PyInt(values[i])[1] : i \in 1..Len(values)}
          IN  FinishWith("select_dm_roles",
                         RefreshContent(CommitSettings(
                             [Cur EXCEPT !.settings.dm_roles = role_ids])),
                         values)

\* select_dm_roles with the too-many-roles entry: _text_select_dm_roles
text_select_dm_roles ==
    /\ CanPress("Lookup", "select_dm_roles")
    /\ DmRoleOptions(guild).sentinel
    /\ Suspend("select_dm_roles", Prompt(Cur, "select_dm_roles"))

toggle_dm_required ==
    /\ CanPress("Lookup", "toggle_dm_required")
    /\ Finish("toggle_dm_required",
              RefreshContent(CommitSettings([Cur EXCEPT !.settings.lookup_dm_required = ~@])))

toggle_pm_dm ==
    /\ CanPress("Lookup", "toggle_pm_dm")
    /\ Finish("toggle_pm_dm",
              RefreshContent(CommitSettings([Cur EXCEPT !.settings.lookup_pm_dm = ~@])))

toggle_pm_result_of_pm_dm ==
    /\ CanPress("Lookup", "toggle_pm_result")
    /\ Finish("toggle_pm_result",
              RefreshContent(CommitSettings(
                  [Cur EXCEPT !.settings.lookup_pm_result = ~Cur.settings.lookup_pm_dm])))

toggle_pm_result ==
    /\ CanPress("Lookup", "toggle_pm_result")
    /\ Finish("toggle_pm_result",
              RefreshContent(CommitSettings([Cur EXCEPT !.settings.lookup_pm_result = ~@])))

LookupBackToRandchar == CanPress("Lookup", "back") /\ DeferTo("Randchar", "back")

LookupBack == CanPress("Lookup", "back") /\ DeferTo("Root", "back")

(* _InlineRollingSettingsUI *)

SetInlineKeepDisabled(x, mode, button) ==
    RefreshContent(CommitSettings(
        [x EXCEPT !.settings.inline_enabled = mode,
                  !.disabled = @ \cup {button}]))

SetInline(x, mode, button) ==
    RefreshContent(CommitSettings(
        [x EXCEPT !.settings.inline_enabled = mode,
                  !.disabled = (@ \ {"disable", "react", "enable"}) \cup {button}]))

disable == CanPress("InlineRolling", "disable") /\ Finish("disable", SetInline(Cur, "DISABLED", "disable"))

react == CanPress("InlineRolling", "react") /\ Finish("react", SetInline(Cur, "REACTION", "react"))

enable == CanPress("InlineRolling", "enable") /\ Finish("enable", SetInline(Cur, "ENABLED", "enable"))

InlineBack == CanPress("InlineRolling", "back") /\ DeferTo("Root", "back")

(* _MiscellaneousSettingsUI *)

toggle_campaign_cta ==
    /\ CanPress("Miscellaneous", "toggle_campaign_cta")
    /\ Finish("toggle_campaign_cta",
              RefreshContent(CommitSettings([Cur EXCEPT !.settings.show_campaign_cta = ~@])))

toggle_upenn_nlp_opt_in ==
    /\ CanPress("Miscellaneous", "toggle_upenn_nlp_opt_in")
    /\ Finish("toggle_upenn_nlp_opt_in",
              RefreshContent(CommitSettings([Cur EXCEPT !.settings.upenn_nlp_opt_in = ~@])))

MiscBack == CanPress("Miscellaneous", "back") /\ DeferTo("Root", "back")

(* _RandcharSettingsUI *)

select_dice == CanPress("Randchar", "select_dice") /\ Suspend("select_dice", Prompt(Cur, "select_dice"))

select_sets == CanPress("Randchar", "select_sets") /\ Suspend("select_sets", Prompt(Cur, "select_sets"))

select_stats == CanPress("Randchar", "select_stats") /\ Suspend("select_stats", Prompt(Cur, "select_stats"))

toggle_straight_uncommitted ==
    /\ CanPress("Randchar", "toggle_straight")
    /\ LET x == [Cur EXCEPT !.settings.randchar_straight = ~@]
       IN  IF x.settings.randchar_straight
           THEN Suspend("toggle_straight", Prompt(x, "toggle_straight"))
           ELSE Finish("toggle_straight", RefreshContent(x))

\* toggle_straight up to its wait, or to its end when it switches off
toggle_straight ==
    /\ CanPress("Randchar", "toggle_straight")
    /\ LET x == [Cur EXCEPT !.settings.randchar_straight = ~@]
       IN  IF x.settings.randchar_straight
           THEN Suspend("toggle_straight", Prompt(x, "toggle_straight"))
           ELSE Finish("toggle_straight", RefreshContent(CommitSettings(x)))

select_minimum ==
    CanPress("Randchar", "select_minimum") /\ Suspend("select_minimum", Prompt(Cur, "select_minimum"))

select_maximum ==
    CanPress("Randchar", "select_maximum") /\ Suspend("select_maximum", Prompt(Cur, "select_maximum"))

add_rule == CanPress("Randchar", "add_rule") /\ Suspend("add_rule", Prompt(Cur, "add_rule"))

PopLast(seq, i) == SubSeq(seq, 1, Len(seq) - 1)

\* list.pop(i)
Pop(seq, i) == SubSeq(seq, 1, i) \o SubSeq(seq, i + 2, Len(seq))

\* remove_rule: select.values is empty (min_values=0) or holds the value
\* str(i) of the one entry chosen; select.values[0] of an empty list raises
\* the IndexError that ends the handler before it has done anything
remove_rule ==
    /\ CanPress("Randchar", "remove_rule")
    /\ \E values \in {<<>>} \cup {<<NatStr(i)>> : i \in 0..(removeOpts - 1)} :
          IF values = <<>>
          THEN FinishWith("remove_rule", Cur, values)
          ELSE LET removed_rule == PyInt(values[1])[1]
               IN  FinishWith("remove_rule",
                              RefreshContent(CommitSettings(RefreshRemoveRuleSelect(
                                  [Cur EXCEPT !.settings.randchar_rules =
                                                  Pop(@, removed_rule)]))),
                              values)

RandcharBack == CanPress("Randchar", "back") /\ DeferTo("Root", "back")

----------------------------------------------------------------------------
(* The follow-up message. Every listener of the session has the same       *)
(* check (the owner, the channel), so one message resolves all of them;    *)
(* their handlers then resume oldest first, before any new interaction.    *)
(* The listeners share one timeout, so the oldest times out first.         *)

on_message ==
    /\ woken = <<>> /\ pending # <<>>
    /\ \E m \in Msgs :
          /\ woken' = [i \in 1..Len(pending) |-> [wait |-> pending[i], ev |-> m]]
          /\ last' = Last("on_message", "done", "none", m.content, <<>>, FALSE)
    /\ pending' = <<>>
    /\ UNCHANGED <<settings, store, guild, nlpFlag, screen, items, disabled, removeOpts,
                   steps, display, peer, gate>>

\* the handler of wait w runs from its wait_for to its end
Complete(w, ev) ==
    LET own == IF w.detached
               THEN [Cur EXCEPT !.disabled = IF w.btn THEN {w.act} ELSE {},
                                !.items = {}, !.removeOpts = 0]
               ELSE Cur
        r == ResumeOf(w.act, own, guild, ev)
    IN  /\ settings' = r.x.settings
        /\ store' = r.x.store
        /\ IF w.detached THEN UNCHANGED <<disabled, removeOpts, display>>
           ELSE /\ disabled' = r.x.disabled /\ removeOpts' = r.x.removeOpts
                /\ display' = Shown(screen, r.x)
        /\ last' = Last(w.act, "done", r.outcome, ev.content, r.x.log, w.act \in r.x.disabled)
        /\ UNCHANGED <<guild, nlpFlag, screen, items, steps, peer, gate>>

resume ==
    /\ woken # <<>>
    /\ Complete(Head(woken).wait, Head(woken).ev)
    /\ woken' = Tail(woken)
    /\ UNCHANGED pending

wait_timeout ==
    /\ woken = <<>> /\ pending # <<>>
    /\ Complete(Head(pending), TimeoutEv)
    /\ pending' = Tail(pending)
    /\ UNCHANGED woken

----------------------------------------------------------------------------
(* feature_flag(flag_name, default): one call of the wrapped handler.       *)
(* The collaborators' answers are inputs: the linked-account lookup finds  *)
(* an account, finds none or raises; the flag service answers on or off,   *)
(* answers with the fallback value it was passed, or raises; the inner     *)
(* handler returns a value or raises.                                      *)

NoResult == [kind |-> "none", value |-> "none"]

Raised(error) == [kind |-> "raise", value |-> error]

Returned(value) == [kind |-> "return", value |-> value]

GateInputs ==
    [pc : {"get_ddb_user"},
     default : BOOLEAN,
     lookup : {"account", "none", "error"},
     service : {"on", "off", "fallback", "error"},
     inner : {Returned("a"), Returned("b"), Raised("HandlerError")},
     call : [self : {"cog"}, gctx : {"gctx"}, args : {<<>>, <<"x">>}, kwargs : {"none", "k=1"}],
     calls : {<<>>},
     result : {NoResult}]

GateIdle ==
    [pc |-> "idle", default |-> FALSE, lookup |-> "none", service |-> "off",
     inner |-> Returned("a"), call |-> [self |-> "cog", gctx |-> "gctx", args |-> <<>>,
                                        kwargs |-> "none"],
     calls |-> <<>>, result |-> NoResult]

GateDone(g, result) == [g EXCEPT !.pc = "done", !.result = result]

GetDdbUserUnchecked(g) ==
    IF g.lookup = "error" THEN GateDone(g, Raised("LookupError"))
    ELSE [g EXCEPT !.pc = "variation"]

\* user = await gctx.bot.ddb.get_ddb_user(...); if not user: raise IgnoreEvent
GetDdbUser(g) ==
    CASE g.lookup = "error" -> GateDone(g, Raised("LookupError"))
      [] g.lookup = "none" -> GateDone(g, Raised("IgnoreEvent"))
      [] g.lookup = "account" -> [g EXCEPT !.pc = "variation"]

FallbackFromDecorator(default) == default

\* the fallback value the wrapper hands to variation_for_ddb_user
FallbackPassed(default) == FALSE

VariationOrDefault(g) ==
    LET flag_on == g.default \/ g.service = "on"
    IN  IF g.service = "error" THEN GateDone(g, Raised("FlagError"))
        ELSE IF ~flag_on THEN GateDone(g, Raised("IgnoreEvent"))
        ELSE [g EXCEPT !.pc = "inner"]

\* flag_on = await ...variation_for_ddb_user(flag_name, user, False, ...);
\* if not flag_on: raise IgnoreEvent
Variation(g) ==
    LET flag_on == CASE g.service = "on" -> TRUE
                     [] g.service = "off" -> FALSE
                     [] OTHER -> FallbackPassed(g.default)
    IN  IF g.service = "error" THEN GateDone(g, Raised("FlagError"))
        ELSE IF ~flag_on THEN GateDone(g, Raised("IgnoreEvent"))
        ELSE [g EXCEPT !.pc = "inner"]

InnerArgumentsWithoutKwargs(call) == [call EXCEPT !.kwargs = "none"]

\* the arguments the wrapper calls the inner handler with
InnerArguments(call) == call

\* return await inner(self, gctx, *args, **kwargs)
Inner(g) == [GateDone(g, g.inner) EXCEPT !.calls = Append(@, InnerArguments(g.call))]

get_ddb_user ==
    /\ gate.pc = "get_ddb_user"
    /\ gate' = GetDdbUser(gate)
    /\ UNCHANGED menuVars

variation_for_ddb_user ==
    /\ gate.pc = "variation"
    /\ gate' = Variation(gate)
    /\ UNCHANGED menuVars

inner ==
    /\ gate.pc = "inner"
    /\ gate' = Inner(gate)
    /\ UNCHANGED menuVars

----------------------------------------------------------------------------
(* Specifications. *)

\* no second session is open
NoPeer == [screen |-> "closed", settings |-> DefaultSettings]

\* the guilds a session may be opened on: the roles, and the value of the
\* remote flag for the owner
Guilds == { [roles |-> SmallGuild, nlp |-> TRUE], [roles |-> BigGuild, nlp |-> FALSE] }

\* ServerSettingsUI.new on the document loaded for the guild
MenuInit ==
    /\ settings \in StoredDocs
    /\ store = settings
    /\ \E g \in Guilds : guild = g.roles /\ nlpFlag = g.nlp
    /\ screen = "Root"
    /\ items = ItemsOf("Root")
    /\ disabled = {}
    /\ removeOpts = 0
    /\ pending = <<>>
    /\ woken = <<>>
    /\ last = Last("new", "done", "none", <<>>, <<>>, FALSE)
    /\ steps = 0
    /\ display = GetContent("Root", nlpFlag)

Init == MenuInit /\ peer = NoPeer /\ gate = GateIdle

Next ==
    \/ lookup_settings \/ inline_rolling_settings \/ randchar_settings
    \/ miscellaneous_settings \/ exit
    \/ select_dm_roles \/ text_select_dm_roles
    \/ toggle_dm_required \/ toggle_pm_dm \/ toggle_pm_result \/ LookupBack
    \/ disable \/ react \/ enable \/ InlineBack
    \/ toggle_campaign_cta \/ toggle_upenn_nlp_opt_in \/ MiscBack
    \/ select_dice \/ select_sets \/ select_stats \/ toggle_straight
    \/ select_minimum \/ select_maximum \/ add_rule \/ remove_rule \/ RandcharBack
    \/ on_message \/ resume \/ wait_timeout

Spec == Init /\ [][Next]_vars

\* a handler wrapped by feature_flag is called with one event
InitGate ==
    /\ settings = DefaultSettings
    /\ store = settings
    /\ guild = SmallGuild
    /\ nlpFlag = FALSE
    /\ screen = "Root"
    /\ items = ItemsOf("Root")
    /\ disabled = {}
    /\ removeOpts = 0
    /\ pending = <<>>
    /\ woken = <<>>
    /\ last = Last("new", "done", "none", <<>>, <<>>, FALSE)
    /\ steps = 0
    /\ display = GetContent("Root", nlpFlag)
    /\ peer = NoPeer
    /\ gate \in GateInputs

NextGate == get_ddb_user \/ variation_for_ddb_user \/ inner

SpecGate == InitGate /\ [][NextGate]_vars

----------------------------------------------------------------------------
(* One collect-freeform action on a wide set of messages: a session that    *)
(* has opened the Lookup or the Randchar screen and activated one control,  *)
(* which now waits for the owner's message.                                 *)

\* longest message tried on Add Over/Under Rule
MaxRuleLen == 4

\* all sequences over chars of length up to n
Strings(chars, n) == UNION {[1..k -> chars] : k \in 0..n}

Default == <<"d","e","f","a","u","l","t">>

\* "default" in every letter case
DefaultInputs ==
    {[i \in 1..Len(Default) |-> IF i \in caps THEN UpperChar(Default[i]) ELSE Default[i]] :
        caps \in SUBSET (1..Len(Default))}
    \cup {Default \o <<"s">>, <<" ">> \o Default, <<"n","o","n","e">>}

IntInputs ==
    {NatStr(n) : n \in 0..(SetsBound + 1)}
    \cup {<<"-","3">>, <<" ","4"," ">>, <<"+","4">>, <<"4",".","0">>, <<"1","_","0">>,
          <<"0","6">>, <<"a">>, <<>>}

RuleInputs ==
    Strings({"1", "0", ">", "<", "a", " "}, MaxRuleLen)
    \cup {<<"2","<","1","0">>, <<"1",">","1","5">>, <<"1","5",">","2">>, <<"-","1","<","2">>}

DiceInputs ==
    {<<"4","d","6","k","h","3">>, <<"d","2","0">>, <<"2","d","6">>, <<"1","d">>,
     <<"a","b","c">>, <<"4">>, <<"1","d","6","k","l","1">>, <<" ","2","d","8"," ">>, <<>>}

StatNameInputs ==
    {<<"a",","," ","b",",","c",",","d">>, <<"a",",","b",",","c",",","d",",","e",",","f">>,
     <<"a",",",",","b",",","c">>, <<"a">>, <<>>}

RoleInputs ==
    {Msg(<<"r","e","s","e","t">>, {}), Msg(<<"R","e","s","e","t">>, {}),
     Msg(<<"d","m",","," ","x">>, {}), Msg(<<"2">>, {}), Msg(<<"2",","," ","D","M">>, {}),
     Msg(<<"x">>, {}), Msg(<<"7","7">>, {}), Msg(<<"9","9">>, {}),
     Msg(<<" ","R","7"," ",",","x">>, {}), Msg(<<"r","5",",","6">>, {4}),
     Msg(<<>>, {4}), Msg(<<>>, {})}

\* the messages tried on the handler that waits
InputsOf(act) ==
    CASE act = "select_dice" -> {Msg(c, {}) : c \in DiceInputs}
      [] act \in {"select_sets", "select_stats"} -> {Msg(c, {}) : c \in IntInputs}
      [] act \in {"select_minimum", "select_maximum"} ->
             {Msg(c, {}) : c \in IntInputs \cup DefaultInputs}
      [] act = "toggle_straight" -> {Msg(c, {}) : c \in StatNameInputs \cup DefaultInputs}
      [] act = "add_rule" -> {Msg(c, {}) : c \in RuleInputs}
      [] act = "select_dm_roles" -> RoleInputs

\* documents the session may have loaded
InputDocs ==
    StoredDocs \cup
    { [DefaultSettings EXCEPT !.dm_roles = {5},
                              !.randchar_min = Some(70),
                              !.randchar_max = Some(80),
                              !.randchar_rules = <<>>] }

Waiters == {"select_dice", "select_sets", "select_stats", "toggle_straight",
            "select_minimum", "select_maximum", "add_rule", "select_dm_roles"}

\* the state after ServerSettingsUI.new on doc, the Root button to the
\* control's screen, and the activation of control act up to its wait_for
InitInput ==
    \E doc \in InputDocs, g \in Guilds, act \in Waiters :
        LET cls == IF act = "select_dm_roles" THEN "Lookup" ELSE "Randchar"
            fresh == [settings |-> doc, store |-> doc, items |-> ItemsOf(cls),
                      disabled |-> {}, removeOpts |-> 0, log |-> <<>>]
            sent == [BeforeSend(cls, fresh, g.nlp) EXCEPT !.log = <<>>]
            x == IF act = "toggle_straight"
                 THEN Prompt([sent EXCEPT !.settings.randchar_straight = TRUE], act)
                 ELSE Prompt(sent, act)
        IN  /\ DmRoleOptions(g.roles).sentinel <=> act = "select_dm_roles"
            /\ act = "toggle_straight" => ~doc.randchar_straight
            /\ act \notin sent.disabled
            /\ settings = x.settings /\ store = x.store
            /\ guild = g.roles /\ nlpFlag = g.nlp
            /\ screen = cls /\ items = x.items
            /\ disabled = x.disabled /\ removeOpts = x.removeOpts
            /\ pending = << [act |-> act, detached |-> FALSE, btn |-> TRUE,
                             mem |-> doc, db |-> doc, timeout |-> WaitTimeout] >>
            /\ woken = <<>>
            /\ last = Last(act, "waiting", "none", <<>>, x.log, TRUE)
            /\ steps = 2
            /\ display = GetContent(cls, g.nlp)
            /\ peer = NoPeer
            /\ gate = GateIdle

\* the owner's message, from the messages tried on the oldest waiting handler
on_input ==
    /\ woken = <<>> /\ pending # <<>>
    /\ \E m \in InputsOf(Head(pending).act) :
          /\ woken' = [i \in 1..Len(pending) |-> [wait |-> pending[i], ev |-> m]]
          /\ last' = Last("on_message", "done", "none", m.content, <<>>, FALSE)
    /\ pending' = <<>>
    /\ UNCHANGED <<settings, store, guild, nlpFlag, screen, items, disabled, removeOpts,
                   steps, display, peer, gate>>

NextInput == on_input \/ resume \/ wait_timeout

SpecInput == InitInput /\ [][NextInput]_vars

----------------------------------------------------------------------------
(* The Miscellaneous screen under a remote flag that may be switched while  *)
(* the session is open: the menu evaluates the flag anew in every          *)
(* _before_send and every get_content.                                     *)

\* the flag service changes its answer for the owner
flag_update ==
    /\ nlpFlag' = ~nlpFlag
    /\ UNCHANGED <<settings, store, guild, screen, items, disabled, removeOpts,
                   pending, woken, last, steps, display, peer, gate>>

NextFlag ==
    \/ miscellaneous_settings \/ toggle_campaign_cta \/ toggle_upenn_nlp_opt_in
    \/ MiscBack \/ flag_update

SpecFlag == Init /\ [][NextFlag]_vars

----------------------------------------------------------------------------
(* Two menu sessions on one guild. The second session (peer) is another    *)
(* ServerSettingsUI with its own document object, loaded from the store    *)
(* when it is opened; it runs the same handlers on its own copy.           *)

PeerVarsUnchanged ==
    UNCHANGED <<settings, guild, nlpFlag, screen, items, disabled, removeOpts,
                pending, woken, last, steps, display, gate>>

\* ServerSettingsUI.new for the second session
peer_new ==
    /\ peer.screen = "closed"
    /\ peer' = [screen |-> "Root", settings |-> store]
    /\ UNCHANGED store
    /\ PeerVarsUnchanged

peer_lookup_settings ==
    /\ peer.screen = "Root"
    /\ peer' = [peer EXCEPT !.screen = "Lookup"]
    /\ UNCHANGED store
    /\ PeerVarsUnchanged

\* a handler of the second session: it mutates that session's document and
\* commits it
PeerCommit(doc) ==
    LET x == CommitSettings([Cur EXCEPT !.settings = doc])
    IN  /\ peer' = [peer EXCEPT !.settings = x.settings]
        /\ store' = x.store
        /\ PeerVarsUnchanged

peer_toggle_pm_dm ==
    /\ peer.screen = "Lookup"
    /\ PeerCommit([peer.settings EXCEPT !.lookup_pm_dm = ~@])

peer_toggle_pm_result ==
    /\ peer.screen = "Lookup"
    /\ PeerCommit([peer.settings EXCEPT !.lookup_pm_result = ~@])

peer_back ==
    /\ peer.screen = "Lookup"
    /\ peer' = [peer EXCEPT !.screen = "Root"]
    /\ UNCHANGED store
    /\ PeerVarsUnchanged

NextTwo ==
    \/ lookup_settings \/ toggle_dm_required \/ toggle_pm_dm \/ LookupBack
    \/ peer_new \/ peer_lookup_settings \/ peer_toggle_pm_dm
    \/ peer_toggle_pm_result \/ peer_back

SpecTwo == Init /\ [][NextTwo]_vars

----------------------------------------------------------------------------
(* The end of a session. A handler is suspended at its wait_for when the   *)
(* owner goes back to the Root screen and leaves the menu.                 *)

\* the state after ServerSettingsUI.new on doc, the Root button to the
\* control's screen, and the activation of control act up to its wait_for;
\* steps counts the interactions from here on
InitExit ==
    \E doc \in InputDocs, g \in Guilds, act \in Waiters :
        LET cls == IF act = "select_dm_roles" THEN "Lookup" ELSE "Randchar"
            fresh == [settings |-> doc, store |-> doc, items |-> ItemsOf(cls),
                      disabled |-> {}, removeOpts |-> 0, log |-> <<>>]
            sent == [BeforeSend(cls, fresh, g.nlp) EXCEPT !.log = <<>>]
            x == IF act = "toggle_straight"
                 THEN Prompt([sent EXCEPT !.settings.randchar_straight = TRUE], act)
                 ELSE Prompt(sent, act)
        IN  /\ DmRoleOptions(g.roles).sentinel <=> act = "select_dm_roles"
            /\ act = "toggle_straight" => ~doc.randchar_straight
            /\ act \notin sent.disabled
            /\ settings = x.settings /\ store = x.store
            /\ guild = g.roles /\ nlpFlag = g.nlp
            /\ screen = cls /\ items = x.items
            /\ disabled = x.disabled /\ removeOpts = x.removeOpts
            /\ pending = << [act |-> act, detached |-> FALSE, btn |-> TRUE,
                             mem |-> doc, db |-> doc, timeout |-> WaitTimeout] >>
            /\ woken = <<>>
            /\ last = Last(act, "waiting", "none", <<>>, x.log, TRUE)
            /\ steps = 0
            /\ display = GetContent(cls, g.nlp)
            /\ peer = NoPeer
            /\ gate = GateIdle

\* the inactivity timeout of the view: on_timeout runs without an
\* interaction, here once no handler of the session is waiting any more
on_timeout ==
    /\ pending = <<>> /\ woken = <<>>
    /\ items # {}
    /\ Apply([Cur EXCEPT !.items = {}, !.disabled = {}])
    /\ last' = Last("on_timeout", "done", "none", <<>>, <<>>, FALSE)
    /\ UNCHANGED <<guild, nlpFlag, screen, pending, woken, steps, display, peer, gate>>

NextExit ==
    \/ RandcharBack \/ LookupBack \/ exit \/ on_timeout
    \/ on_message \/ resume \/ wait_timeout

SpecExit == InitExit /\ [][NextExit]_vars

----------------------------------------------------------------------------
(* Set Number of Stats and Toggle Assign Stats in one session, with the    *)
(* messages tried on the handler that has waited longest.                  *)

NextStraight ==
    \/ randchar_settings \/ select_stats \/ toggle_straight
    \/ on_input \/ resume \/ wait_timeout

SpecStraight == Init /\ [][NextStraight]_vars

----------------------------------------------------------------------------
(* The Inline Rolling screen on documents of every mode. *)

\* ServerSettingsUI.new on a document whose inline rolling mode is any of
\* the three
InitInline ==
    /\ settings \in {[doc EXCEPT !.inline_enabled = mode] :
                         doc \in StoredDocs, mode \in {"DISABLED", "REACTION", "ENABLED"}}
    /\ store = settings
    /\ \E g \in Guilds : guild = g.roles /\ nlpFlag = g.nlp
    /\ screen = "Root"
    /\ items = ItemsOf("Root")
    /\ disabled = {}
    /\ removeOpts = 0
    /\ pending = <<>>
    /\ woken = <<>>
    /\ last = Last("new", "done", "none", <<>>, <<>>, FALSE)
    /\ steps = 0
    /\ display = GetContent("Root", nlpFlag)
    /\ peer = NoPeer
    /\ gate = GateIdle

NextInline == inline_rolling_settings \/ disable \/ react \/ enable \/ InlineBack

SpecInline == InitInline /\ [][NextInline]_vars

----------------------------------------------------------------------------
(* The rule list. A handler is suspended at its wait_for when the owner    *)
(* goes back to the Root screen and opens the Randchar screen again.       *)

NextRules ==
    \/ RandcharBack \/ randchar_settings \/ add_rule \/ remove_rule
    \/ on_message \/ resume \/ wait_timeout

SpecRules == InitExit /\ [][NextRules]_vars

----------------------------------------------------------------------------
(* The check of wait_for. Any message the bot sees, from any user in any   *)
(* channel, is offered to the listener; the lambda decides.                *)

CheckAuthorOnly(interaction, msg) == msg.author = interaction.author

\* lambda msg: msg.author == interaction.author
\*             and msg.channel.id == interaction.channel_id
Check(interaction, msg) ==
    msg.author = interaction.author /\ msg.channel_id = interaction.channel_id

\* a message arrives while a handler waits; last.log records who sent it
\* and where
on_channel_message ==
    /\ woken = <<>> /\ pending # <<>>
    /\ \E m \in Msgs, a \in {"owner", "other"}, c \in {"channel", "elsewhere"} :
          /\ last' = Last("on_message", "done", "none", m.content, <<a, c>>, FALSE)
          /\ IF Check([author |-> "owner", channel_id |-> "channel"],
                      [author |-> a, channel_id |-> c])
             THEN /\ woken' = [i \in 1..Len(pending) |-> [wait |-> pending[i], ev |-> m]]
                  /\ pending' = <<>>
             ELSE UNCHANGED <<pending, woken>>
    /\ UNCHANGED <<settings, store, guild, nlpFlag, screen, items, disabled, removeOpts,
                   steps, display, peer, gate>>

NextCheck == on_channel_message \/ resume \/ wait_timeout

SpecCheck == InitInput /\ [][NextCheck]_vars

----------------------------------------------------------------------------
(* Properties of feature_flag, checked under SpecGate. *)

GateOff ==
    \/ gate.lookup = "none"
    \/ gate.lookup = "account" /\ gate.service \in {"off", "fallback"}

\* C1: when the lookup finds no linked account, or the flag is off for the
\* account, the wrapped handler is never invoked and the call ends with
\* IgnoreEvent and no other error.
C1_FlagOffIgnoresEvent ==
    GateOff => /\ gate.calls = <<>>
               /\ gate.pc = "done" => gate.result = Raised("IgnoreEvent")

C1_Witness ==
    /\ gate.pc = "done" /\ gate.lookup = "account" /\ gate.service = "off"
    /\ gate.result = Raised("IgnoreEvent")

\* C2: when the account is linked and the flag is on, the handler is invoked
\* exactly once with self, the event context, the positional and the keyword
\* arguments the wrapper got, and the wrapper returns or raises what the
\* handler returned or raised.
C2_FlagOnForwards ==
    (gate.pc = "done" /\ gate.lookup = "account" /\ gate.service = "on")
        => gate.calls = <<gate.call>> /\ gate.result = gate.inner

C2_Witness ==
    /\ gate.pc = "done" /\ gate.lookup = "account" /\ gate.service = "on"
    /\ gate.call.kwargs = "k=1" /\ gate.inner = Raised("HandlerError")
    /\ Len(gate.calls) = 1

GateFailed ==
    \/ gate.lookup = "error"
    \/ gate.lookup = "account" /\ gate.service = "error"

\* C3 as stated: an error raised by the lookup or by the flag evaluation
\* ends the call with IgnoreEvent, the handler is not invoked, and no other
\* error escapes.
C3_Original ==
    (gate.pc = "done" /\ GateFailed)
        => gate.calls = <<>> /\ gate.result = Raised("IgnoreEvent")

\* C3, amended: a flag evaluation that fails by answering with its fallback
\* value ends the call with IgnoreEvent; an error raised by the lookup or by
\* the flag evaluation escapes the wrapper as it is; in both cases the
\* handler is not invoked.
C3_FailureDropsOrEscapes ==
    /\ (gate.lookup = "account" /\ gate.service = "fallback")
          => /\ gate.calls = <<>>
             /\ gate.pc = "done" => gate.result = Raised("IgnoreEvent")
    /\ GateFailed
          => /\ gate.calls = <<>>
             /\ gate.pc = "done" =>
                   gate.result = IF gate.lookup = "error" THEN Raised("LookupError")
                                 ELSE Raised("FlagError")

C3_Witness ==
    /\ gate.pc = "done" /\ gate.lookup = "account" /\ gate.service = "fallback"
    /\ gate.default /\ gate.result = Raised("IgnoreEvent")

----------------------------------------------------------------------------
(* Properties of the settings menu, checked under Spec. *)

\* the last step was the end of a handler that had waited for a message
Resolved == last.phase = "done" /\ last.outcome \in {"ok", "invalid", "timeout"}

\* the message read n in decimal
Holds(n) == last.content = IF n < 0 THEN <<"-">> \o NatStr(0 - n) ELSE NatStr(n)

\* C4: Set Number of Sets with a message holding an integer of 1..25, Set
\* Number of Stats with one of 1..10, Set Minimum and Set Maximum with any
\* integer, negative ones too: when the action ends the field is that
\* integer, and the document was committed exactly once, with that value.
C4_ValidIntegerIsStoredOnce ==
    /\ \A n \in 1..SetsBound :
          (Resolved /\ last.act = "select_sets" /\ Holds(n))
              => /\ settings.randchar_sets = n /\ store.randchar_sets = n
                 /\ Count(last.log, "commit") = 1
    /\ \A n \in 1..StatsBound :
          (Resolved /\ last.act = "select_stats" /\ Holds(n))
              => /\ settings.randchar_num = n /\ store.randchar_num = n
                 /\ Count(last.log, "commit") = 1
    /\ \A n \in (0 - 3)..(SetsBound + 1) :
          /\ (Resolved /\ last.act = "select_minimum" /\ Holds(n))
                => /\ settings.randchar_min = Some(n) /\ store.randchar_min = Some(n)
                   /\ Count(last.log, "commit") = 1
          /\ (Resolved /\ last.act = "select_maximum" /\ Holds(n))
                => /\ settings.randchar_max = Some(n) /\ store.randchar_max = Some(n)
                   /\ Count(last.log, "commit") = 1

C4_Witness ==
    /\ Resolved /\ last.act = "select_sets" /\ Holds(SetsBound)
    /\ settings.randchar_sets = SetsBound

\* the wait a resume or wait_timeout step resolves
Resolving == IF woken # <<>> THEN Head(woken).wait ELSE Head(pending)

\* the step ends a handler whose wait timed out or whose message was invalid
FailStep == last'.phase = "done" /\ last'.outcome \in {"invalid", "timeout"}

FailureNoticeOnly(log) == Count(log, "notice_fail") = 1 /\ Count(log, "notice_ok") = 0

\* C5 as stated: when the wait times out or the message is invalid, every
\* field of the document, in memory and in the store, is what it was when
\* the action started, and the user gets the failure notice and no
\* confirmation.
C5_Original ==
    [][FailStep => /\ settings' = Resolving.mem
                   /\ store' = Resolving.db
                   /\ FailureNoticeOnly(last'.log)]_vars

\* C5, amended: when the wait times out or the message is invalid, the end of
\* the action changes no field in memory, except that Toggle Assign Stats
\* sets assign-directly back to disabled, which it was when the action
\* started; it writes nothing to the store, except that Toggle Assign Stats
\* and the DM-roles text entry commit the in-memory document as it then is;
\* and the user gets the failure notice and no confirmation.
C5_FailureChangesNothing ==
    [][FailStep =>
          /\ settings' = IF last'.act = "toggle_straight"
                         THEN [settings EXCEPT !.randchar_straight = FALSE]
                         ELSE settings
          /\ last'.act = "toggle_straight" => ~Resolving.mem.randchar_straight
          /\ store' = IF last'.act \in {"toggle_straight", "select_dm_roles"}
                      THEN settings' ELSE store
          /\ FailureNoticeOnly(last'.log)]_vars

C5_Witness ==
    /\ last.phase = "done" /\ last.act = "toggle_straight" /\ last.outcome = "invalid"
    /\ ~settings.randchar_straight

Rendered(log) == log # <<>> /\ log[Len(log)] = "render"

\* C6 as stated: every collect-freeform action ends, on success, on invalid
\* input and on timeout, with its triggering control enabled and the screen
\* rendered again.
C6_Original == Resolved => ~last.btn /\ Rendered(last.log)

\* C6, amended: every collect-freeform action ends, on success, on invalid
\* input and on timeout, with the screen rendered again and with its
\* triggering control enabled, except that Add Over/Under Rule leaves its
\* control as it is when the rule list holds 25 rules or more.
C6_EndsEnabledAndRendered ==
    Resolved => /\ Rendered(last.log)
                /\ last.btn => /\ last.act = "add_rule"
                               /\ Len(settings.randchar_rules) >= RuleLimit

C6_Witness ==
    /\ Resolved /\ last.act = "select_dm_roles" /\ last.outcome = "timeout"
    /\ ~last.btn /\ "select_dm_roles" \notin disabled

StraightMatches(doc) ==
    doc.randchar_straight => Len(doc.randchar_stat_names) = doc.randchar_num

\* C7: in every state of a session, in memory and in the store, when
\* assign-stats-directly is enabled the number of stat names is the stat
\* count (the documents a session loads satisfy it).
C7_Original == StraightMatches(settings) /\ StraightMatches(store)

\* C8: at most one wait for a follow-up message is outstanding at any time.
C8_Original == Len(pending) <= 1

\* C9: while a collect-freeform action waits, its triggering control stays
\* disabled, and the same action is not waiting a second time.
C9_Original ==
    /\ \A i \in 1..Len(pending) :
          IF pending[i].detached THEN pending[i].btn ELSE pending[i].act \in disabled
    /\ \A i, j \in 1..Len(pending) : pending[i].act = pending[j].act => i = j

\* C10: the screen is always one of Root, Lookup, InlineRolling, Randchar and
\* Miscellaneous; a session starts at Root; every change of screen leaves
\* Root for a child or returns from a child to Root.
C10_Navigation ==
    /\ screen = "Root"
    /\ [](screen \in Screens)
    /\ [][screen' # screen => (screen = "Root" \/ screen' = "Root")]_vars

C10_Witness == screen = "Root" /\ last.act = "back" /\ steps = 2

----------------------------------------------------------------------------
(* Mutate-and-persist actions. *)

Toggles == {"toggle_dm_required", "toggle_pm_dm", "toggle_pm_result",
            "toggle_campaign_cta", "toggle_upenn_nlp_opt_in"}

\* the field a toggle is about
ToggleField(act) ==
    CASE act = "toggle_dm_required" -> "lookup_dm_required"
      [] act = "toggle_pm_dm" -> "lookup_pm_dm"
      [] act = "toggle_pm_result" -> "lookup_pm_result"
      [] act = "toggle_campaign_cta" -> "show_campaign_cta"
      [] act = "toggle_upenn_nlp_opt_in" -> "upenn_nlp_opt_in"

\* C11: each boolean toggle negates its own field and no other field of the
\* document, commits the whole document exactly once, renders, and ends
\* without prompting or waiting for a message.
C11_ToggleNegatesOwnField ==
    [][last'.act \in Toggles =>
          /\ settings' = [settings EXCEPT ![ToggleField(last'.act)] = ~@]
          /\ store' = settings'
          /\ Count(last'.log, "commit") = 1
          /\ Rendered(last'.log)
          /\ Count(last'.log, "prompt") = 0
          /\ last'.phase = "done" /\ pending' = pending]_vars

C11_Witness ==
    /\ last.act = "toggle_pm_result" /\ last.phase = "done"
    /\ settings.lookup_pm_result /\ store.lookup_pm_result
    /\ ~settings.lookup_pm_dm

----------------------------------------------------------------------------
(* Properties of one collect-freeform action, checked under SpecInput. *)

\* C12: Set Number of Stats with a message reading n of 1..10 sets the stat
\* count to n, disables assign-stats-directly when n is not the number of
\* stat names and leaves it as it was when it is, changes neither the
\* stat names nor any other field, and the store holds the same document.
C12_StatsCountAndStraight ==
    [][\A n \in 1..StatsBound :
          (last'.act = "select_stats" /\ Resolved' /\ last'.content = NatStr(n))
              => /\ settings' =
                       [settings EXCEPT
                           !.randchar_num = n,
                           !.randchar_straight =
                               IF n # Len(settings.randchar_stat_names) THEN FALSE ELSE @]
                 /\ settings'.randchar_stat_names = settings.randchar_stat_names
                 /\ store' = settings']_vars

\* from 6 to 4 on the document with six names and assign-directly enabled
C12_Witness ==
    /\ Resolved /\ last.act = "select_stats" /\ last.content = <<"4">>
    /\ Len(settings.randchar_rules) = RuleLimit - 1
    /\ settings.randchar_num = 4 /\ ~settings.randchar_straight
    /\ settings.randchar_stat_names = DefaultNames

\* the numbers the texts of C13 are built from
RuleNumbers == {0, 1, 2, 10, 11, 15, 100}

RuleText(n, sep, v) == NatStr(n) \o <<sep>> \o NatStr(v)

\* C13: Add Over/Under Rule with the message N>value (N<value) appends the
\* one rule {gt (lt), N, value} at the end of the rule list and changes
\* nothing else, commits once, and the summary of the new list is
\* "At least ", the entries of the old list, then "N over value"
\* ("N under value").
C13_RuleIsAppended ==
    [][\A n \in RuleNumbers, v \in RuleNumbers, sep \in {">", "<"} :
          (last'.act = "add_rule" /\ Resolved' /\ last'.content = RuleText(n, sep, v))
              => LET rule == [type |-> IF sep = ">" THEN "gt" ELSE "lt",
                              amount |-> n, value |-> v]
                     word == IF sep = ">" THEN <<" ","o","v","e","r"," ">>
                             ELSE <<" ","u","n","d","e","r"," ">>
                     before == IF settings.randchar_rules = <<>>
                               THEN <<"A","t"," ","l","e","a","s","t"," ">>
                               ELSE get_over_under_desc(settings.randchar_rules)
                                    \o <<",", " ">>
                 IN  /\ settings' = [settings EXCEPT !.randchar_rules = Append(@, rule)]
                     /\ store' = settings'
                     /\ Count(last'.log, "commit") = 1
                     /\ get_over_under_desc(settings'.randchar_rules)
                            = before \o NatStr(n) \o word \o NatStr(v)]_vars

C13_Witness ==
    /\ Resolved /\ last.act = "add_rule" /\ last.content = <<"2","<","1","0">>
    /\ settings.randchar_rules = <<LtRule>>
    /\ get_over_under_desc(settings.randchar_rules)
           = <<"A","t"," ","l","e","a","s","t"," ","2"," ","u","n","d","e","r"," ","1","0">>

\* content is N>value or N<value: one separator, a numeric-parseable text on
\* each side of it
WellFormedRule(content) ==
    \E i \in 1..Len(content) :
        /\ content[i] \in {">", "<"}
        /\ \A j \in 1..Len(content) : content[j] \in {">", "<"} => j = i
        /\ PyInt(SubSeq(content, 1, i - 1)) # None
        /\ PyInt(SubSeq(content, i + 1, Len(content))) # None

\* C14: Add Over/Under Rule rejects every message that is not N>value or
\* N<value with N and value numeric-parseable (no separator, several
\* separators, both separators, an empty or non-numeric part): the document
\* is unchanged in memory and in the store and nothing is committed.
C14_MalformedRuleRejected ==
    [][(/\ last'.act = "add_rule" /\ last'.phase = "done"
        /\ last'.outcome \in {"ok", "invalid"}
        /\ ~WellFormedRule(last'.content))
          => /\ last'.outcome = "invalid"
             /\ settings' = settings /\ store' = store
             /\ Count(last'.log, "commit") = 0]_vars

C14_Witness ==
    /\ last.act = "add_rule" /\ last.phase = "done" /\ last.outcome = "invalid"
    /\ last.content = <<"1", ">", "1", ">">>
    /\ Len(settings.randchar_rules) = RuleLimit - 1

\* the bound Set Minimum and Set Maximum are about
BoundField(act) == IF act = "select_minimum" THEN "randchar_min" ELSE "randchar_max"

\* C15: Set Minimum (Set Maximum) with the message default, in any letter
\* case, sets the minimum (maximum) to none, changes no other field, and
\* commits once; the store then holds the same document.
C15_DefaultClearsBound ==
    [][(/\ last'.act \in {"select_minimum", "select_maximum"} /\ last'.phase = "done"
        /\ last'.outcome \in {"ok", "invalid"}
        /\ Lower(last'.content) = Default)
          => /\ last'.outcome = "ok"
             /\ settings' = [settings EXCEPT ![BoundField(last'.act)] = None]
             /\ store' = settings'
             /\ Count(last'.log, "commit") = 1]_vars

C15_Witness ==
    /\ Resolved /\ last.act = "select_minimum" /\ last.outcome = "ok"
    /\ last.content = <<"D","e","F","A","u","l","T">>
    /\ settings.randchar_min = None /\ settings.randchar_max = Some(80)
    /\ store.randchar_min = None

----------------------------------------------------------------------------
(* Properties of the settings menu, checked under Spec (continued). *)

\* the role ids the values of a select interaction name
Selected(values) ==
    {id \in RoleIds(guild) : \E i \in 1..Len(values) : values[i] = NatStr(id)}

\* C16: with more than 25 roles the DM-role select offers no role entry, and
\* choosing its entry prompts and waits for a message; with 25 roles or
\* fewer it offers one entry per role, and a selection sets the DM roles to
\* exactly the ids selected (to none when nothing is selected), in memory
\* and in the store, without prompting.
C16_SelectOrTextEntry ==
    /\ DmRoleOptions(guild) =
          IF Len(guild) > TooManyRoles THEN [sentinel |-> TRUE, roles |-> {}]
          ELSE [sentinel |-> FALSE, roles |-> {guild[i].id : i \in 1..Len(guild)}]
    \* the options on guilds around the limit do not depend on the state of
    \* the session: they are evaluated in its first state
    /\ steps = 0 => \A n \in {0, 1} \cup ((TooManyRoles - 1)..(TooManyRoles + 2)) :
          DmRoleOptions(GuildOfSize(n)) =
              IF n > TooManyRoles THEN [sentinel |-> TRUE, roles |-> {}]
              ELSE [sentinel |-> FALSE, roles |-> 1..n]
    /\ (last.act = "select_dm_roles" /\ last.phase = "waiting")
          => /\ Len(guild) > TooManyRoles
             /\ Count(last.log, "prompt") = 1
             /\ \E i \in 1..Len(pending) : pending[i].act = "select_dm_roles"
    /\ (last.act = "select_dm_roles" /\ last.phase = "done" /\ last.outcome = "none")
          => /\ settings.dm_roles = Selected(last.content)
             /\ store.dm_roles = Selected(last.content)
             /\ Cardinality(Selected(last.content)) = Len(last.content)
             /\ Len(guild) > TooManyRoles => last.content = <<>>
             /\ Count(last.log, "prompt") = 0

C16_Witness ==
    /\ last.act = "select_dm_roles" /\ last.phase = "done" /\ last.outcome = "none"
    /\ Len(guild) <= TooManyRoles
    /\ last.content = <<NatStr(1), NatStr(2)>>
    /\ settings.dm_roles = {1, 2} /\ store.dm_roles = {1, 2}

----------------------------------------------------------------------------
(* Properties of one collect-freeform action, checked under SpecInput       *)
(* (continued).                                                            *)

\* the roles of guild g that message ev mentions or that one of its
\* comma-separated tokens names, by id or by name in any letter case
NamedRoles(g, ev) ==
    LET tokens == Split(ev.content, ",")
    IN  ev.role_mentions \cup
        {g[k].id : k \in {k \in 1..Len(g) :
            \E i \in 1..Len(tokens) :
                \/ Strip(tokens[i]) = NatStr(g[k].id)
                \/ Lower(Strip(tokens[i])) = Lower(g[k].name)}}

\* C17: in the DM-roles text entry the message reset sets the DM roles to
\* none; any other message sets them to exactly the roles of the guild that
\* it mentions or names by a token (by id or by name, in any letter case),
\* and leaves them as they were when it names no role.
C17_Original ==
    [][(/\ last'.act = "select_dm_roles" /\ last'.phase = "done"
        /\ last'.outcome \in {"ok", "invalid"})
          => LET ev == Head(woken).ev
                 named == NamedRoles(guild, ev)
             IN  settings'.dm_roles =
                    IF ev.content = <<"r","e","s","e","t">> THEN {}
                    ELSE IF named = {} THEN settings.dm_roles
                    ELSE named]_vars

----------------------------------------------------------------------------
(* Properties of the Miscellaneous screen, checked under SpecFlag. *)

\* C18: on the Miscellaneous screen the NLP opt-in control is offered
\* exactly when its description is shown, and no step of the menu changes
\* upenn_nlp_opt_in while the remote flag is off.
C18_Original ==
    /\ [](screen = "Miscellaneous"
            => ("toggle_upenn_nlp_opt_in" \in items <=> display.nlp))
    /\ [][settings'.upenn_nlp_opt_in # settings.upenn_nlp_opt_in => nlpFlag]_vars

----------------------------------------------------------------------------
(* Properties of the settings menu, checked under Spec (committed state). *)

\* no handler is suspended at a wait_for and none is being resumed
NoActionInProgress == pending = <<>> /\ woken = <<>>

\* C20: whenever no action of the session is in progress, the stored
\* document equals the in-memory settings.
C20_IdleStoreEqualsMemory == NoActionInProgress => store = settings

\* a handler that changed the document in memory before its wait has ended
\* in its failure branch, and the session is idle again
C20_Witness ==
    /\ NoActionInProgress
    /\ last.act = "toggle_straight" /\ last.phase = "done"
    /\ last.outcome \in {"invalid", "timeout"}
    /\ store = settings

----------------------------------------------------------------------------
(* Properties of two sessions on one guild, checked under SpecTwo. *)

\* C19: every commit of either session overwrites the whole stored document
\* with that session's own copy, whatever the store held, and no session's
\* step changes the other session's copy; a lost update is reachable.
C19_LastWriterWins ==
    [][/\ (steps' # steps /\ last'.act \in Toggles) => store' = settings'
       /\ (peer.screen # "closed" /\ peer'.settings # peer.settings)
             => store' = peer'.settings
       /\ settings' # settings => peer' = peer
       /\ (peer' # peer /\ peer.screen # "closed")
             => (settings' = settings /\ peer'.settings.lookup_dm_required
                                           = peer.settings.lookup_dm_required)]_vars

\* the first session committed a toggle of lookup_dm_required after the
\* second had loaded its copy; the second then committed a toggle of
\* lookup_pm_result, and the store no longer holds the first session's change
C19_Witness ==
    /\ last.act = "toggle_dm_required"
    /\ peer.screen = "Lookup"
    /\ peer.settings.lookup_dm_required # settings.lookup_dm_required
    /\ peer.settings.lookup_pm_result # settings.lookup_pm_result
    /\ store = peer.settings
    /\ store.lookup_dm_required # settings.lookup_dm_required

----------------------------------------------------------------------------
(* Properties of the end of a session, checked under SpecExit. *)

\* the components have been taken off the message
Ended == items = {}

\* C21: the session ends only by the Root screen's exit or by the
\* inactivity timeout, with the same effect, and once it has ended nothing
\* changes the document or the store.
C21_Original ==
    [][/\ (~Ended /\ Ended') => last'.act \in {"exit", "on_timeout"}
       /\ Ended => (Ended' /\ settings' = settings /\ store' = store)]_vars

----------------------------------------------------------------------------
(* Properties of one collect-freeform action, checked under SpecInput       *)
(* (the follow-up message).                                                *)

\* C22: a collect-freeform action that received a message, valid or not,
\* has attempted to delete it, exactly once; the attempt changes nothing
\* else, whether it succeeds or not.
C22_Original ==
    (last.act \in Waiters /\ last.phase = "done" /\ last.outcome \in {"ok", "invalid"})
        => Count(last.log, "delete") = 1

----------------------------------------------------------------------------
(* Properties of the check of wait_for, checked under SpecCheck. *)

\* C23: a message resolves the wait exactly when the owner sent it in the
\* channel of the interaction; any other message changes no setting and
\* leaves the wait outstanding with its timeout of 60.
C23_OnlyOwnerInChannel ==
    [][(last'.act = "on_message" /\ last' # last)
          => IF last'.log = <<"owner", "channel">>
             THEN /\ pending' = <<>>
                  /\ Len(woken') = Len(pending)
                  /\ \A i \in 1..Len(woken') : woken'[i].ev.content = last'.content
             ELSE /\ pending' = pending /\ pending # <<>> /\ woken' = <<>>
                  /\ \A i \in 1..Len(pending) : pending[i].timeout = 60
                  /\ settings' = settings /\ store' = store]_vars

\* another user has sent 4 in the channel while the owner's Set Number of
\* Sets waits: the wait is still outstanding
C23_Witness ==
    /\ last.act = "on_message" /\ last.log = <<"other", "channel">>
    /\ last.content = <<"4">>
    /\ pending # <<>> /\ Head(pending).act = "select_sets"
    /\ settings.randchar_sets # 4

----------------------------------------------------------------------------
(* Properties of Toggle Assign Stats, checked under SpecStraight. *)

\* the number of comma-separated tokens of a reply
TokenCount(content) == Cardinality({i \in 1..Len(content) : content[i] = ","}) + 1

CanonicalNames == << <<"S","T","R">>, <<"D","E","X">>, <<"C","O","N">>,
                     <<"I","N","T">>, <<"W","I","S">>, <<"C","H","A">> >>

\* the reply is default (in any letter case) while the stat count is 6, or
\* a list with as many tokens as the stat count
NamesAccepted(content, num) ==
    IF Lower(content) = <<"d","e","f","a","u","l","t">> THEN num = 6
    ELSE TokenCount(content) = num

\* C24: Toggle Assign Stats on a document with assign-directly enabled
\* disables it, without a prompt and with the stat names as they were; on a
\* document with it disabled it prompts, and ends with assign-directly
\* enabled and the names replaced when the reply is accepted, and with it
\* disabled and the names as they were on any other reply or on timeout.
C24_Original ==
    [][(last'.act = "toggle_straight" /\ last' # last)
          => CASE last'.phase = "waiting" ->
                     /\ ~settings.randchar_straight
                     /\ Count(last'.log, "prompt") = 1
                     /\ settings'.randchar_stat_names = settings.randchar_stat_names
               [] last'.phase = "done" /\ last'.outcome = "none" ->
                     /\ settings.randchar_straight
                     /\ settings' = [settings EXCEPT !.randchar_straight = FALSE]
                     /\ store' = settings'
                     /\ Count(last'.log, "prompt") = 0
               [] last'.phase = "done" /\ last'.outcome # "none" ->
                     IF last'.outcome # "timeout"
                        /\ NamesAccepted(last'.content, settings.randchar_num)
                     THEN /\ settings'.randchar_straight
                          /\ Len(settings'.randchar_stat_names) = settings.randchar_num
                          /\ settings'.randchar_stat_names =
                                 IF Lower(last'.content) = <<"d","e","f","a","u","l","t">>
                                 THEN CanonicalNames
                                 ELSE Split(ReplaceCommaSpace(last'.content), ",")
                          /\ store' = settings'
                     ELSE /\ ~settings'.randchar_straight
                          /\ settings'.randchar_stat_names = settings.randchar_stat_names]_vars

----------------------------------------------------------------------------
(* Properties of the settings menu, checked under Spec (Remove Rule). *)

\* the list without its entry at index k, counted from 0
Without(rules, k) ==
    [j \in 1..(Len(rules) - 1) |-> IF j <= k THEN rules[j] ELSE rules[j + 1]]

\* C25: choosing entry k of the Remove Rule select, which was built from
\* rule k of the list, removes that rule and no other, keeps the order of
\* the rest and commits once; a selection of no entry changes nothing and
\* leaves the controls as they were.
C25_RemoveRule ==
    [][(last'.act = "remove_rule" /\ steps' # steps)
          => IF last'.content = <<>>
             THEN /\ settings' = settings /\ store' = store
                  /\ screen' = screen /\ items' = items
                  /\ disabled' = disabled /\ removeOpts' = removeOpts
                  /\ last'.log = <<>>
             ELSE \E k \in 0..(Len(settings.randchar_rules) - 1) :
                     /\ last'.content = <<NatStr(k)>>
                     /\ k < removeOpts
                     /\ settings' = [settings EXCEPT
                                        !.randchar_rules = Without(settings.randchar_rules, k)]
                     /\ Len(settings'.randchar_rules) = Len(settings.randchar_rules) - 1
                     /\ store' = settings'
                     /\ Count(last'.log, "commit") = 1]_vars

\* the first of the two rules of a document has been removed
C25_Witness ==
    /\ last.act = "remove_rule" /\ last.content = <<NatStr(0)>>
    /\ settings.randchar_rules = <<LtRule>>
    /\ store = settings

----------------------------------------------------------------------------
(* Properties of the Inline Rolling screen, checked under SpecInline. *)

ModeOf(button) ==
    CASE button = "disable" -> "DISABLED"
      [] button = "react" -> "REACTION"
      [] button = "enable" -> "ENABLED"

\* C26: pressing Disable, React or Enable sets the mode to that value,
\* changes nothing else and commits once; whenever the Inline Rolling screen
\* is shown, exactly the button of the current mode is disabled, so a press
\* always changes the mode.
C26_ModeButtons ==
    /\ [](screen = "InlineRolling"
            => \A b \in {"disable", "react", "enable"} :
                  b \in disabled <=> settings.inline_enabled = ModeOf(b))
    /\ [][\A b \in {"disable", "react", "enable"} :
             (last'.act = b /\ steps' # steps)
                => /\ settings' = [settings EXCEPT !.inline_enabled = ModeOf(b)]
                   /\ settings'.inline_enabled # settings.inline_enabled
                   /\ store' = settings'
                   /\ Count(last'.log, "commit") = 1]_vars

\* Enable has been pressed on a screen opened on a document of another mode
C26_Witness ==
    /\ screen = "InlineRolling" /\ last.act = "enable" /\ steps = 2
    /\ settings.inline_enabled = "ENABLED"
    /\ disabled = {"enable"}

----------------------------------------------------------------------------
(* Properties of the rule list, checked under SpecRules. *)

\* C27: the rule list never holds more than 25 rules, in memory or in the
\* store; on the Randchar screen the Add Over/Under Rule control is disabled
\* whenever the list holds 25 rules, and is enabled after a removal that
\* brings the list from 25 to fewer.
C27_Original ==
    /\ [](/\ Len(settings.randchar_rules) <= 25
          /\ Len(store.randchar_rules) <= 25
          /\ (screen = "Randchar" /\ Len(settings.randchar_rules) = 25)
                => "add_rule" \in disabled)
    /\ [][(last'.act = "remove_rule" /\ steps' # steps
              /\ Len(settings.randchar_rules) = 25
              /\ Len(settings'.randchar_rules) < 25)
                => "add_rule" \notin disabled']_vars

----------------------------------------------------------------------------
(* Properties of feature_flag, checked under SpecGate (the default         *)
(* argument).                                                              *)

\* the call that has ended in g, as made through the decorator given the
\* other value of default
OtherDefault(g) ==
    [g EXCEPT !.pc = "get_ddb_user", !.default = ~@, !.calls = <<>>, !.result = NoResult]

\* one whole call of the wrapped handler
CallThrough(g) ==
    LET user == GetDdbUser(g)
        flag_on == IF user.pc = "done" THEN user ELSE Variation(user)
    IN  IF flag_on.pc = "done" THEN flag_on ELSE Inner(flag_on)

\* C28: a call that has ended has the result, and has called the inner
\* handler, exactly as the same call does through feature_flag with the
\* other value of default, also when the service answers with its fallback.
C28_DefaultIsIgnored ==
    gate.pc = "done"
        => /\ CallThrough(OtherDefault(gate)).result = gate.result
           /\ CallThrough(OtherDefault(gate)).calls = gate.calls
           /\ (gate.lookup = "account" /\ gate.service = "fallback")
                 => (gate.calls = <<>> /\ gate.result = Raised("IgnoreEvent"))

\* feature_flag(name, default=True): the service answered on and the inner
\* handler was called
C28_Witness ==
    /\ gate.pc = "done" /\ gate.default /\ gate.lookup = "account"
    /\ gate.service = "on" /\ gate.calls = <<gate.call>> /\ gate.result = gate.inner

====
